---- MODULE Spec2Model ----
(***************************************************************************)
(* A model of 51/clamytoe/nba.py: the cached CSV of NBA draft records is   *)
(* read by csv.DictReader, bulk-inserted into the sqlite3 table "players"  *)
(* of the file nba.db, and six analytical SQL queries are run on it.       *)
(*                                                                         *)
(* Text is a sequence of one-character strings, so that LIKE, the column   *)
(* affinities and the BINARY collation are computed character by           *)
(* character.  A number is the fraction n/d (d a power of ten); it stands  *)
(* for the IEEE double of the program without its rounding.                *)
(***************************************************************************)
EXTENDS Integers, Sequences, FiniteSets

VARIABLES
    nba_data,   \* content of the file DATA_CACHED: [header, lines]
    nba_db,     \* committed content of the file NBA_DB
    conn,       \* TRUE once the module is loaded and conn/cur are open
    pending,    \* rows written in conn's open transaction, not committed
    result,     \* outcome of the last operation: [op, exc, val]
    hist,       \* import_to_db calls of this run: [bulk, failed, schema]
    dbBefore    \* content of NBA_DB when the current run started

vars == <<nba_data, nba_db, conn, pending, result, hist, dbBefore>>

\* ---------------------------------------------------------------- bounds
MaxImports == 1
MaxDataLines == 2
MaxFamilyRows == 3

\* ------------------------------------------------------------ characters
Digits == <<"0", "1", "2", "3", "4", "5", "6", "7", "8", "9">>

UpperChars == <<"A", "B", "C", "D", "E", "F", "G", "H", "I", "J", "K", "L", "M",
                "N", "O", "P", "Q", "R", "S", "T", "U", "V", "W", "X", "Y", "Z">>

LowerChars == <<"a", "b", "c", "d", "e", "f", "g", "h", "i", "j", "k", "l", "m",
                "n", "o", "p", "q", "r", "s", "t", "u", "v", "w", "x", "y", "z">>

\* The characters of the model in the order of their ASCII codes.
Ascii == <<" ", ".">> \o Digits \o UpperChars \o LowerChars

Code(c) == CHOOSE i \in 1..Len(Ascii) : Ascii[i] = c

IsDigit(c) == \E i \in 1..Len(Digits) : Digits[i] = c

DigitVal(c) == (CHOOSE i \in 1..Len(Digits) : Digits[i] = c) - 1

\* sqlite3's LIKE folds the case of ASCII letters only.
Lower(c) ==
    IF \E i \in 1..Len(UpperChars) : UpperChars[i] = c
    THEN LowerChars[CHOOSE i \in 1..Len(UpperChars) : UpperChars[i] = c]
    ELSE c

RECURSIVE Pow10(_)
Pow10(k) == IF k = 0 THEN 1 ELSE 10 * Pow10(k - 1)

RECURSIVE DigitsVal(_)
DigitsVal(s) ==
    IF s = <<>> THEN 0
    ELSE 10 * DigitsVal(SubSeq(s, 1, Len(s) - 1)) + DigitVal(s[Len(s)])

RECURSIVE NatText(_)
NatText(n) ==
    IF n < 10 THEN <<Digits[n + 1]>>
    ELSE NatText(n \div 10) \o <<Digits[(n % 10) + 1]>>

\* ------------------------------------------------------- sqlite3 values
Null == [t |-> "null", n |-> 0, d |-> 1, s |-> <<>>]
IntegerV(i) == [t |-> "integer", n |-> i, d |-> 1, s |-> <<>>]
RECURSIVE Reduce(_, _)
Reduce(p, q) ==
    IF q % 10 = 0 /\ p % 10 = 0 THEN Reduce(p \div 10, q \div 10) ELSE <<p, q>>
RealV(p, q) ==
    LET r == Reduce(p, q) IN [t |-> "real", n |-> r[1], d |-> r[2], s |-> <<>>]
TextV(str) == [t |-> "text", n |-> 0, d |-> 1, s |-> str]

IsNull(v) == v.t = "null"
IsNum(v) == v.t \in {"integer", "real"}
IsText(v) == v.t = "text"

\* A Python value bound to a parameter: a str or None.
None == [none |-> TRUE, s |-> <<>>]
Str(str) == [none |-> FALSE, s |-> str]

\* A numeric literal as sqlite3 reads it: digits, or digits with one ".".
\* (Signs, exponents and surrounding blanks are outside Ascii's numerals.)
NumLit(s) ==
    LET dots == {i \in 1..Len(s) : s[i] = "."}
        rest == \A i \in (1..Len(s)) \ dots : IsDigit(s[i])
    IN  IF Len(s) > 0 /\ dots = {} /\ rest
        THEN [ok |-> TRUE, int |-> TRUE, n |-> DigitsVal(s), d |-> 1]
        ELSE IF Len(s) > 1 /\ Cardinality(dots) = 1 /\ rest
        THEN LET k == CHOOSE i \in dots : TRUE
             IN  [ok |-> TRUE, int |-> FALSE,
                  n |-> DigitsVal(SubSeq(s, 1, k - 1) \o SubSeq(s, k + 1, Len(s))),
                  d |-> Pow10(Len(s) - k)]
        ELSE [ok |-> FALSE, int |-> FALSE, n |-> 0, d |-> 1]

\* Column affinity applied to a bound value when it is stored.
Affinity(aff, py) ==
    IF py.none THEN Null
    ELSE LET lit == NumLit(py.s)
         IN  CASE aff = "integer" /\ lit.ok ->
                      IF lit.n % lit.d = 0 THEN IntegerV(lit.n \div lit.d)
                      ELSE RealV(lit.n, lit.d)
               [] aff = "real" /\ lit.ok -> RealV(lit.n, lit.d)
               [] OTHER -> TextV(py.s)

\* The text of a value, as LIKE sees it.
ToText(v) ==
    CASE v.t = "text" -> v.s
      [] v.t = "integer" -> NatText(v.n)
      [] v.t = "real" ->
            LET ip == v.n \div v.d
                fp == v.n % v.d
                w == Len(NatText(v.d)) - 1
                raw == NatText(fp)
                pad == [i \in 1..(w - Len(raw)) |-> "0"] \o raw
                last == IF \E i \in 1..Len(pad) : pad[i] # "0"
                        THEN CHOOSE i \in 1..Len(pad) :
                               /\ pad[i] # "0"
                               /\ \A j \in (i + 1)..Len(pad) : pad[j] = "0"
                        ELSE 1
            IN  NatText(ip) \o <<".">> \o
                (IF w = 0 THEN <<"0">> ELSE SubSeq(pad, 1, last))
      [] OTHER -> <<>>

\* Storage classes compare NULL < numbers < text; text by memcmp (BINARY).
Class(v) == CASE v.t = "null" -> 0 [] v.t = "text" -> 2 [] OTHER -> 1

RECURSIVE TextLess(_, _)
TextLess(a, b) ==
    IF b = <<>> THEN FALSE
    ELSE IF a = <<>> THEN TRUE
    ELSE IF a[1] # b[1] THEN Code(a[1]) < Code(b[1])
    ELSE TextLess(Tail(a), Tail(b))

Less(a, b) ==
    IF Class(a) # Class(b) THEN Class(a) < Class(b)
    ELSE CASE Class(a) = 1 -> a.n * b.d < b.n * a.d
           [] Class(a) = 2 -> TextLess(a.s, b.s)
           [] OTHER -> FALSE

Same(a, b) == ~Less(a, b) /\ ~Less(b, a)

\* x LIKE pattern: "%" any run, "_" any one character, letters fold case.
RECURSIVE LikeText(_, _)
LikeText(s, p) ==
    IF p = <<>> THEN s = <<>>
    ELSE IF p[1] = "%"
    THEN \E k \in 0..Len(s) : LikeText(SubSeq(s, k + 1, Len(s)), Tail(p))
    ELSE /\ s # <<>>
         /\ (p[1] = "_" \/ Lower(s[1]) = Lower(p[1]))
         /\ LikeText(Tail(s), Tail(p))

Like(v, pattern) == ~IsNull(v) /\ LikeText(ToText(v), ToText(pattern))

\* A text operand of arithmetic is read by its longest numeric prefix.
CastNumeric(v) ==
    IF ~IsText(v) THEN v
    ELSE LET ks == {k \in 1..Len(v.s) : NumLit(SubSeq(v.s, 1, k)).ok}
         IN  IF ks = {} THEN IntegerV(0)
             ELSE LET k == CHOOSE x \in ks : \A y \in ks : y <= x
                      lit == NumLit(SubSeq(v.s, 1, k))
                  IN  IF lit.int THEN IntegerV(lit.n) ELSE RealV(lit.n, lit.d)

\* a / b: integer division of two integers, NULL on a zero divisor.
Divide(a, b) ==
    LET x == CastNumeric(a)
        y == CastNumeric(b)
    IN  IF IsNull(x) \/ IsNull(y) \/ y.n = 0 THEN Null
        ELSE IF x.t = "integer" /\ y.t = "integer" THEN IntegerV(x.n \div y.n)
        ELSE RealV(x.n * y.d, x.d * y.n)

\* ORDER BY: the positions of keys in ascending (desc: descending) order of
\* their values, equal values in the order they have in keys.
Order(keys, desc) ==
    LET before(a, b) == IF desc THEN Less(b, a) ELSE Less(a, b)
        rank(i) == 1 + Cardinality({j \in 1..Len(keys) :
                        \/ before(keys[j], keys[i])
                        \/ ~before(keys[i], keys[j]) /\ j < i})
    IN  [k \in 1..Len(keys) |-> CHOOSE i \in 1..Len(keys) : rank(i) = k]

\* One step of the max() aggregate over the argument values vals: arg is the
\* row holding the maximum so far (0: none yet), bare the row the bare
\* columns of the result are taken from.  NULL is skipped and only a
\* strictly greater value replaces the maximum.
MaxStepLast(acc, vals, i) ==
    IF ~IsNull(vals[i]) /\ (acc.arg = 0 \/ ~Less(vals[i], vals[acc.arg]))
    THEN [arg |-> i, bare |-> i]
    ELSE IF acc.arg = 0 THEN [arg |-> 0, bare |-> i] ELSE acc

MaxStep(acc, vals, i) ==
    IF ~IsNull(vals[i]) /\ (acc.arg = 0 \/ Less(vals[acc.arg], vals[i]))
    THEN [arg |-> i, bare |-> i]
    ELSE IF acc.arg = 0 THEN [arg |-> 0, bare |-> i] ELSE acc

RECURSIVE MaxScan(_, _, _)
MaxScan(acc, vals, i) ==
    IF i > Len(vals) THEN acc ELSE MaxScan(MaxStep(acc, vals, i), vals, i + 1)

\* The row of vals a "SELECT col, MAX(x)" takes col from (0: no row).
MaxRow(vals) == MaxScan([arg |-> 0, bare |-> 0], vals, 1).bare

\* ------------------------------------------------------ the source data
CsvHeader == <<"Player", "Draft_Yr", "first_year", "Team", "College", "Yrs",
               "Games", "Minutes.per.Game", "Points.per.Game">>

Columns == <<"name", "year", "first_year", "team", "college", "active",
             "games", "avg_min", "avg_points">>

ColumnSet == {Columns[i] : i \in 1..Len(Columns)}

\* csv.DictReader's row: the header's names zipped with the cells, a name
\* beyond the row's last cell mapped to None (restval).
DictRow(header, cells) ==
    [k \in {header[i] : i \in 1..Len(header)} |->
        LET i == CHOOSE j \in 1..Len(header) : header[j] = k
        IN  IF i <= Len(cells) THEN Str(cells[i]) ELSE None]

Player(row) ==
    [name |-> row["Player"], year |-> row["Draft_Yr"],
     first_year |-> row["first_year"], team |-> row["Team"],
     college |-> row["College"], active |-> row["Yrs"],
     games |-> row["Games"], avg_min |-> row["Minutes.per.Game"],
     avg_points |-> row["Points.per.Game"]]

HasKeys(header) ==
    \A i \in 1..Len(CsvHeader) : \E j \in 1..Len(header) : header[j] = CsvHeader[i]

\* load_data() from line i on: the players yielded, and the exception that
\* ends the generator ("none": exhausted).  A blank line is skipped by
\* DictReader; a line with a field over csv's field size limit raises
\* csv.Error; a name missing from the header raises KeyError.
RECURSIVE load_data(_, _)
load_data(data, i) ==
    IF i > Len(data.lines) THEN [players |-> <<>>, exc |-> "none"]
    ELSE IF data.lines[i].oversize THEN [players |-> <<>>, exc |-> "Error"]
    ELSE IF data.lines[i].cells = <<>> THEN load_data(data, i + 1)
    ELSE IF ~HasKeys(data.header) THEN [players |-> <<>>, exc |-> "KeyError"]
    ELSE LET rest == load_data(data, i + 1)
         IN  [players |-> <<Player(DictRow(data.header, data.lines[i].cells))>>
                          \o rest.players,
              exc |-> rest.exc]

\* ------------------------------------------------------------ the table
DeclaredSchema ==
    [name |-> "text", year |-> "integer", first_year |-> "integer",
     team |-> "text", college |-> "text", active |-> "integer",
     games |-> "integer", avg_min |-> "real", avg_points |-> "real"]

UntypedSchema == [c \in ColumnSet |-> "none"]

NoSchema == [c \in ColumnSet |-> "absent"]

NoFile == [exists |-> FALSE, table |-> FALSE, schema |-> NoSchema, rows |-> <<>>]

EmptyFile == [NoFile EXCEPT !.exists = TRUE]

\* INSERT INTO players VALUES (?, ?, ?, ?, ?, ?, ?, ?, ?)
InsertRow(schema, player) == [c \in ColumnSet |-> Affinity(schema[c], player[c])]

\* The rows cur sees: the committed ones and those of its open transaction.
Table == nba_db.rows \o pending

\* os.path.isfile(NBA_DB) / os.remove(NBA_DB)
RemoveKeep(db) == db

Remove(db) == IF db.exists THEN NoFile ELSE db

\* sqlite3.connect(NBA_DB) creates the file when there is none.
Connect(db) == IF db.exists THEN db ELSE EmptyFile

\* CREATE TABLE IF NOT EXISTS players (...)
CreateTableUntyped(db) ==
    IF db.table THEN db ELSE [db EXCEPT !.table = TRUE, !.schema = UntypedSchema]

CreateTable(db) ==
    IF db.table THEN db ELSE [db EXCEPT !.table = TRUE, !.schema = DeclaredSchema]

\* -------------------------------------------------------------- queries
DukeUniversity ==
    <<"D", "u", "k", "e", " ", "U", "n", "i", "v", "e", "r", "s", "i", "t", "y">>

StanfordUniversity ==
    <<"S", "t", "a", "n", "f", "o", "r", "d", " ",
      "U", "n", "i", "v", "e", "r", "s", "i", "t", "y">>

VeteranYears == 10
VeteranLimit == 6

Col(rows, c) == [i \in 1..Len(rows) |-> rows[i][c]]

\* COUNT(c): the rows whose c is not NULL.
Count(rows, c) == Cardinality({i \in 1..Len(rows) : ~IsNull(rows[i][c])})

\* SELECT COUNT({column}) FROM players
total_records(rows, column) == Count(rows, column)

\* SELECT name, MAX(avg_points) FROM players ... fetchone()[0]
player_with_max_points_per_game(rows) ==
    IF rows = <<>> THEN Null ELSE rows[MaxRow(Col(rows, "avg_points"))].name

\* SELECT COUNT(name) FROM players WHERE college LIKE 'Duke University'
number_of_players_from_duke(rows) ==
    LET duke(r) == Like(r.college, TextV(DukeUniversity))
    IN  Count(SelectSeq(rows, duke), "name")

\* (first_year_players / total) * 100, both counts COUNT(first_year)
percentage_of_players_first_year(rows) ==
    LET total == total_records(rows, "first_year")
        first(r) == Like(r.first_year, IntegerV(1))
        first_year_players == Count(SelectSeq(rows, first), "first_year")
    IN  IF total = 0 THEN [exc |-> "ZeroDivisionError", val |-> Null]
        ELSE [exc |-> "none", val |-> RealV(first_year_players * 100, total)]

RECURSIVE SumNum(_)
SumNum(vals) ==
    IF vals = <<>> THEN RealV(0, 1)
    ELSE LET x == CastNumeric(vals[1])
             r == SumNum(Tail(vals))
         IN  RealV(x.n * r.d + r.n * x.d, x.d * r.d)

\* SELECT AVG(active) FROM players WHERE college LIKE 'Stanford University'
avg_years_active_players_stanford(rows) ==
    LET stanford(r) == Like(r.college, TextV(StanfordUniversity))
        notnull(v) == ~IsNull(v)
        vals == SelectSeq(Col(SelectSeq(rows, stanford), "active"), notnull)
        sum == SumNum(vals)
    IN  IF vals = <<>> THEN Null ELSE RealV(sum.n, sum.d * Len(vals))

\* SELECT year, COUNT(year) as count FROM players GROUP By year: one row
\* for each distinct year, in ascending order of year.
GroupByYear(rows) ==
    LET first == {i \in 1..Len(rows) :
                    \A j \in 1..(i - 1) : ~Same(rows[j].year, rows[i].year)}
        distinct == [k \in 1..Cardinality(first) |->
                        rows[CHOOSE i \in first :
                               Cardinality({j \in first : j < i}) = k - 1].year]
        group(y) == [year |-> y,
                     count |-> Cardinality({i \in 1..Len(rows) :
                                  ~IsNull(rows[i].year) /\ Same(rows[i].year, y)})]
        order == Order(distinct, FALSE)
    IN  [k \in 1..Len(order) |-> group(distinct[order[k]])]

\* SELECT year, MAX(count) FROM (...) ... fetchone()[0]
year_with_most_drafts(rows) ==
    LET groups == GroupByYear(rows)
        counts == [k \in 1..Len(groups) |-> IntegerV(groups[k].count)]
    IN  IF groups = <<>> THEN Null ELSE groups[MaxRow(counts)].year

\* SELECT name FROM (SELECT name, games/active as games_per_year FROM players
\* WHERE active > 10 ORDER BY games_per_year DESC LIMIT 6) ORDER BY name
most_games_per_year_for_veterans(rows) ==
    LET veteran(r) == Less(IntegerV(VeteranYears), r.active)
        veterans == SelectSeq(rows, veteran)
        inner == [i \in 1..Len(veterans) |->
                    [name |-> veterans[i].name,
                     games_per_year |-> Divide(veterans[i].games,
                                               veterans[i].active)]]
        ranking == Order(Col(inner, "games_per_year"), TRUE)
        ranked == [k \in 1..Len(ranking) |-> inner[ranking[k]]]
        top == SubSeq(ranked, 1, IF Len(ranked) < VeteranLimit
                                 THEN Len(ranked) ELSE VeteranLimit)
        byname == Order(Col(top, "name"), FALSE)
    IN  [k \in 1..Len(byname) |-> top[byname[k]].name]

\* SELECT COUNT(*) FROM players
verify_total_row_count_after_import(rows) == Len(rows)

\* ------------------------------------------------------------ the inputs
T(str) == [cells |-> str, oversize |-> FALSE]

\* A line of the file with all nine cells, in the order of CsvHeader.
Row(name, year, first_year, college, active, games, points) ==
    <<name, year, first_year, <<"T">>, college, active, games,
      <<"1", ".", "5">>, points>>

RowA ==
    Row(<<"A">>, <<"1", "9", "8", "4">>, <<"1">>, DukeUniversity,
        <<"1", "2">>, <<"2", "4">>, <<"3", ".", "5">>)

\* The kinds of line after the header: a full row, a row cut short after
\* its second cell, a blank line, a row with a tenth cell, and a line with
\* a field over the field size limit.  A line is the row csv.reader splits
\* it into; quoted fields that span lines are not among the inputs.
LineKinds ==
    {T(RowA), T(SubSeq(RowA, 1, 2)), T(<<>>), T(RowA \o <<<<"x">>>>),
     [cells |-> <<>>, oversize |-> TRUE]}

\* Headers: the nine names, and the nine names without the last.
Headers == {CsvHeader, SubSeq(CsvHeader, 1, Len(CsvHeader) - 1)}

SeqsUpTo(S, n) == UNION {[1..k -> S] : k \in 0..n}

\* What NBA_DB may hold before the first run: nothing, or a players table of
\* an earlier program (untyped columns) with a row in it.
OldRow == InsertRow(UntypedSchema, Player(DictRow(CsvHeader, RowA)))

PriorFiles ==
    {NoFile,
     [exists |-> TRUE, table |-> TRUE, schema |-> UntypedSchema,
      rows |-> <<OldRow>>]}

NoResult == [op |-> "none", exc |-> "none", val |-> Null]

InitWith(datas, files) ==
    /\ nba_data \in datas
    /\ nba_db \in files
    /\ conn = FALSE
    /\ pending = <<>>
    /\ result = NoResult
    /\ hist = [bulk |-> 0, failed |-> 0, schema |-> 0]
    /\ dbBefore = NoFile

Init ==
    InitWith({[header |-> h, lines |-> l] :
                h \in Headers, l \in SeqsUpTo(LineKinds, MaxDataLines)},
             PriorFiles)

\* ----------------------------------------------------------- operations
\* Lines 12-22: the module is loaded by a new process.  The file of an
\* earlier run is removed and a connection opened; what an earlier process
\* left uncommitted is gone with it.
StartRun ==
    /\ dbBefore' = nba_db
    /\ nba_db' = Connect(Remove(nba_db))
    /\ conn' = TRUE
    /\ pending' = <<>>
    /\ hist' = [bulk |-> 0, failed |-> 0, schema |-> 0]
    /\ result' = [op |-> "load", exc |-> "none", val |-> Null]
    /\ UNCHANGED nba_data

\* import_to_db(players): the table is created; with players None every
\* player of load_data() is inserted in one transaction, committed after
\* the last.  An exception of load_data() leaves executemany() before the
\* commit, the rows inserted so far still in the open transaction.
ImportToDb(players_is_none) ==
    /\ conn
    /\ hist.bulk + hist.failed + hist.schema < MaxImports
    /\ LET created == CreateTable(nba_db)
           loaded == load_data(nba_data, 1)
           new == [i \in 1..Len(loaded.players) |->
                      InsertRow(created.schema, loaded.players[i])]
       IN  IF ~players_is_none
           THEN /\ nba_db' = created
                /\ pending' = pending
                /\ hist' = [hist EXCEPT !.schema = @ + 1]
                /\ result' = [op |-> "import_to_db", exc |-> "none", val |-> Null]
           ELSE IF loaded.exc = "none"
           THEN /\ nba_db' = [created EXCEPT !.rows = @ \o pending \o new]
                /\ pending' = <<>>
                /\ hist' = [hist EXCEPT !.bulk = @ + 1]
                /\ result' = [op |-> "import_to_db", exc |-> "none", val |-> Null]
           ELSE /\ nba_db' = created
                /\ pending' = pending \o new
                /\ hist' = [hist EXCEPT !.failed = @ + 1]
                /\ result' = [op |-> "import_to_db", exc |-> loaded.exc, val |-> Null]
    /\ UNCHANGED <<nba_data, conn, dbBefore>>

\* A query on cur: sqlite3.OperationalError when there is no players table.
Query(op, answer) ==
    /\ conn
    /\ result' = IF ~nba_db.table
                 THEN [op |-> op, exc |-> "OperationalError", val |-> Null]
                 ELSE [op |-> op, exc |-> answer.exc, val |-> answer.val]
    /\ UNCHANGED <<nba_data, nba_db, conn, pending, hist, dbBefore>>

Ok(v) == [exc |-> "none", val |-> v]

VerifyTotalRowCount ==
    Query("verify_total_row_count_after_import",
          Ok(verify_total_row_count_after_import(Table)))

PlayerWithMaxPointsPerGame ==
    Query("player_with_max_points_per_game",
          Ok(player_with_max_points_per_game(Table)))

NumberOfPlayersFromDuke ==
    Query("number_of_players_from_duke", Ok(number_of_players_from_duke(Table)))

PercentageOfPlayersFirstYear ==
    Query("percentage_of_players_first_year",
          percentage_of_players_first_year(Table))

AvgYearsActivePlayersStanford ==
    Query("avg_years_active_players_stanford",
          Ok(avg_years_active_players_stanford(Table)))

YearWithMostDrafts ==
    Query("year_with_most_drafts", Ok(year_with_most_drafts(Table)))

MostGamesPerYearForVeterans ==
    Query("most_games_per_year_for_veterans",
          Ok(most_games_per_year_for_veterans(Table)))

Next ==
    \/ StartRun
    \/ \E players_is_none \in BOOLEAN : ImportToDb(players_is_none)
    \/ VerifyTotalRowCount
    \/ PlayerWithMaxPointsPerGame
    \/ NumberOfPlayersFromDuke
    \/ PercentageOfPlayersFirstYear
    \/ AvgYearsActivePlayersStanford
    \/ YearWithMostDrafts
    \/ MostGamesPerYearForVeterans

Spec == Init /\ [][Next]_vars

\* ------------------------------------------------ inputs of the queries
\* Row i of a family: the player named by the i-th letter, the cell of
\* column k one of vals, or the row cut short before column k (csv.DictReader
\* then gives None for column k and those after it).
BaseRow(i) ==
    Row(<<UpperChars[i]>>, <<"1", "9", "8", "4">>, <<"0">>, <<"X">>,
        <<"1", "2">>, <<"2", "4">>, <<"2">>)

Vary(i, k, vals) ==
    {T([BaseRow(i) EXCEPT ![k] = v]) : v \in vals}
        \cup {T(SubSeq(BaseRow(i), 1, k - 1))}

RECURSIVE FamilyLines(_, _, _)
FamilyLines(k, vals, m) ==
    IF m = 0 THEN {<<>>}
    ELSE {Append(l, x) : l \in FamilyLines(k, vals, m - 1), x \in Vary(m, k, vals)}

Family(k, vals, n) ==
    {[header |-> CsvHeader, lines |-> l] :
        l \in UNION {FamilyLines(k, vals, m) : m \in 1..n}}

PointsCells == {<<"3", ".", "5">>, <<"2">>, <<"1", "0">>, <<>>}

CollegeCells ==
    {DukeUniversity,
     <<"d", "u", "k", "e", " ", "u", "n", "i", "v", "e", "r", "s", "i", "t", "y">>,
     StanfordUniversity, <<>>}

FirstYearCells == {<<"1">>, <<"0">>, <<>>, <<"x">>}

YearCells == {<<"1", "9", "8", "3">>, <<"1", "9", "8", "4">>, <<>>}

InitMax == InitWith(Family(9, PointsCells, MaxFamilyRows), {NoFile})
SpecMax == InitMax /\ [][Next]_vars

InitCollege == InitWith(Family(5, CollegeCells, MaxFamilyRows), {NoFile})
SpecCollege == InitCollege /\ [][Next]_vars

InitFirstYear == InitWith(Family(3, FirstYearCells, MaxFamilyRows), {NoFile})
SpecFirstYear == InitFirstYear /\ [][Next]_vars

InitYear == InitWith(Family(2, YearCells, MaxFamilyRows), {NoFile})
SpecYear == InitYear /\ [][Next]_vars

\* One veteran more than the query keeps, named G, F, ... A in the order of
\* the file, each with 12 years and 24 or 35 games.
VeteranRow(i, games) ==
    T(Row(<<UpperChars[VeteranLimit + 2 - i]>>, <<"1", "9", "8", "4">>, <<"0">>,
          <<"X">>, <<"1", "2">>, games, <<"2">>))

RECURSIVE VeteranLines(_)
VeteranLines(m) ==
    IF m = 0 THEN {<<>>}
    ELSE {Append(l, VeteranRow(m, g)) :
            l \in VeteranLines(m - 1), g \in {<<"2", "4">>, <<"3", "5">>}}

VeteranFamily ==
    {[header |-> CsvHeader, lines |-> l] : l \in VeteranLines(VeteranLimit + 1)}

InitVeterans == InitWith(VeteranFamily, {NoFile})
SpecVeterans == InitVeterans /\ [][Next]_vars

\* ------------------------------------------------------------ properties
NonBlankLines == {i \in 1..Len(nba_data.lines) : nba_data.lines[i].cells # <<>>}

\* A valid CSV: the header names the nine columns and every line after it
\* is one row of as many cells as the header.
ValidCsv ==
    /\ HasKeys(nba_data.header)
    /\ \A i \in 1..Len(nba_data.lines) :
          /\ ~nba_data.lines[i].oversize
          /\ Len(nba_data.lines[i].cells) = Len(nba_data.header)

AfterRunsImport == conn /\ hist.bulk = 1 /\ hist.failed = 0

\* C1: after a run's import (the file reset, the table created, the records
\* bulk-inserted) the row count of players is the number of records loaded,
\* which is the number of lines after the header that hold a row (all of
\* them in a valid CSV), whatever NBA_DB held before the run.
C1_RowCountAfterImport ==
    AfterRunsImport =>
        /\ verify_total_row_count_after_import(Table)
              = Len(load_data(nba_data, 1).players)
        /\ Len(load_data(nba_data, 1).players) = Cardinality(NonBlankLines)
        /\ ValidCsv => Len(Table) = Len(nba_data.lines)
        /\ result.op = "verify_total_row_count_after_import"
              => result = [op |-> "verify_total_row_count_after_import",
                           exc |-> "none", val |-> Cardinality(NonBlankLines)]

C1_Witness ==
    /\ AfterRunsImport
    /\ ValidCsv
    /\ dbBefore.rows # <<>>
    /\ result.op = "verify_total_row_count_after_import"
    /\ result.val = MaxDataLines

\* C2: bulk insert is all or nothing: after an import that failed none of
\* its rows is in players, for this connection's later queries either; after
\* one that succeeded every record is.
C2_AllOrNothing ==
    conn =>
        IF hist.failed > 0 THEN Table = <<>>
        ELSE Len(Table) = hist.bulk * Len(load_data(nba_data, 1).players)

Points(i) == Table[i].avg_points

\* C3: on a non-empty table player_with_max_points_per_game returns the name
\* of a record whose avg_points is the greatest of all records, the first
\* in insertion order of those that share it.
C3_MaxPointsFirstInserted ==
    (/\ result.op = "player_with_max_points_per_game"
     /\ result.exc = "none"
     /\ Table # <<>>)
    => \E i \in 1..Len(Table) :
          /\ IsNum(Points(i))
          /\ \A j \in 1..Len(Table) :
                IsNum(Points(j)) => ~Less(Points(i), Points(j))
          /\ \A j \in 1..(i - 1) : ~Same(Points(j), Points(i))
          /\ result.val = Table[i].name

\* C4: number_of_players_from_duke counts exactly the records whose college
\* is the string 'Duke University', letter case included, and is 0 when
\* there is none.
C4_CountExactCollege ==
    (result.op = "number_of_players_from_duke" /\ nba_db.table)
    => result = [op |-> "number_of_players_from_duke", exc |-> "none",
                 val |-> Cardinality({i \in 1..Len(Table) :
                            Table[i].college = TextV(DukeUniversity)})]

\* C5: percentage_of_players_first_year is 100 * (records with first_year 1)
\* / (records with a first_year), a record whose first_year was empty or
\* malformed in the source left out of the denominator.
C5_PercentageOfWellFormed ==
    (result.op = "percentage_of_players_first_year" /\ result.exc = "none")
    => LET ones == Cardinality({i \in 1..Len(Table) :
                       Table[i].first_year = IntegerV(1)})
           wellformed == Cardinality({i \in 1..Len(Table) :
                             IsNum(Table[i].first_year)})
       IN  /\ wellformed > 0
           /\ result.val.n * wellformed = 100 * ones * result.val.d

Drafts(y) == Cardinality({i \in 1..Len(Table) : Same(Table[i].year, y)})

HasYear == \E i \in 1..Len(Table) : ~IsNull(Table[i].year)

\* C6: year_with_most_drafts returns the year that most records have, the
\* smallest of the years that share the highest number of records.
C6_YearWithMostDrafts ==
    (/\ result.op = "year_with_most_drafts"
     /\ result.exc = "none"
     /\ HasYear)
    => /\ \E i \in 1..Len(Table) : Table[i].year = result.val
       /\ ~IsNull(result.val)
       /\ \A j \in 1..Len(Table) :
             ~IsNull(Table[j].year) =>
                /\ Drafts(Table[j].year) <= Drafts(result.val)
                /\ Drafts(Table[j].year) = Drafts(result.val)
                      => ~Less(Table[j].year, result.val)

\* Two years tie for the most records, the smaller inserted after the larger.
C6_Witness ==
    /\ result.op = "year_with_most_drafts"
    /\ result.exc = "none"
    /\ \E i, j \in 1..Len(Table) :
          /\ i < j
          /\ IsNum(Table[i].year) /\ IsNum(Table[j].year)
          /\ Less(Table[j].year, Table[i].year)
          /\ Drafts(Table[i].year) = Drafts(Table[j].year)
          /\ \A k \in 1..Len(Table) : Drafts(Table[k].year) <= Drafts(Table[j].year)
          /\ result.val = Table[j].year

\* games / active by real division, as fractions n/d compared crosswise.
RatioLess(a, b) ==
    a.games.n * a.active.d * b.games.d * b.active.n
        < b.games.n * b.active.d * a.games.d * a.active.n

TopVeterans(rows, minActiveYears, topN) ==
    LET veteran(r) == IsNum(r.active) /\ r.active.n > minActiveYears * r.active.d
        vets == SelectSeq(rows, veteran)
        better(a, b) ==
            \/ RatioLess(b, a)
            \/ ~RatioLess(a, b) /\ TextLess(a.name.s, b.name.s)
        rank(i) == 1 + Cardinality({j \in 1..Len(vets) :
                        \/ better(vets[j], vets[i])
                        \/ ~better(vets[i], vets[j]) /\ j < i})
        top == [k \in 1..Len(vets) |->
                    vets[CHOOSE i \in 1..Len(vets) : rank(i) = k]]
        kept == SubSeq(top, 1, IF Len(top) < topN THEN Len(top) ELSE topN)
        names == Col(kept, "name")
        byname == Order(names, FALSE)
    IN  [k \in 1..Len(byname) |-> names[byname[k]]]

\* C7: most_games_per_year_for_veterans ranks the records with active > 10
\* by games / active in real division, greatest first and equal ratios by
\* name, keeps the first 6 and returns their names in alphabetical order.
C7_TopVeteransRealDivision ==
    (result.op = "most_games_per_year_for_veterans" /\ result.exc = "none")
    => result.val = TopVeterans(Table, VeteranYears, VeteranLimit)

SixQueries ==
    {"player_with_max_points_per_game", "number_of_players_from_duke",
     "percentage_of_players_first_year", "avg_years_active_players_stanford",
     "year_with_most_drafts", "most_games_per_year_for_veterans"}

\* C8: each of the six queries fails with an error, and returns no value,
\* when the players table is missing or empty.
C8_QueryErrorOnEmpty ==
    (result.op \in SixQueries /\ (~nba_db.table \/ Table = <<>>))
    => result.exc # "none"

MalformedLines ==
    {i \in NonBlankLines :
        \/ Len(nba_data.lines[i].cells) < Len(CsvHeader)
        \/ ~HasKeys(nba_data.header)}

\* C9: load_data fails at the first row that lacks one of the nine columns:
\* the rows before it are the only ones yielded, and no record has a field
\* that is absent.
C9_ParseErrorOnShortRow ==
    LET loaded == load_data(nba_data, 1)
    IN  (/\ result.op = "import_to_db"
         /\ hist.bulk + hist.failed > 0
         /\ MalformedLines # {})
        => /\ loaded.exc # "none"
           /\ \A i \in 1..Len(loaded.players) :
                 \A c \in ColumnSet : ~loaded.players[i][c].none
           /\ \A i \in 1..Len(Table) : \A c \in ColumnSet : ~IsNull(Table[i][c])

CleanTable ==
    [exists |-> TRUE, table |-> TRUE, schema |-> DeclaredSchema, rows |-> <<>>]

AfterResetCreate == conn /\ hist.schema > 0 /\ hist.bulk = 0 /\ hist.failed = 0

\* C10: the reset of the file followed by the creation of the table leaves,
\* from whatever NBA_DB held, an existing and empty players table with the
\* nine declared columns; done a second time it leaves the same again.
C10_ResetCreateIdempotent ==
    AfterResetCreate => nba_db = CleanTable /\ Table = <<>>

C10_Witness == AfterResetCreate /\ dbBefore = CleanTable /\ nba_db = CleanTable

====
